---------------------------- MODULE Spec2Model ----------------------------
(***************************************************************************)
(* A model of SceneManager (Project/Source/SceneManager.cpp): the texture  *)
(* registry, the material registry, the transform composer and the scene   *)
(* script, over an explicit model of the backend state they write (the GL  *)
(* texture units and the shader program's uniforms).                       *)
(*                                                                         *)
(* Floats are fixed-point numbers in thousandths (Q = 1000): 0.2 is 200.   *)
(* Texture names are handed out by glGenTextures in increasing order; only *)
(* their freshness matters to the code.                                    *)
(***************************************************************************)
EXTENDS Integers, Sequences, FiniteSets, TLC

VARIABLES
    m_pShaderManager,   \* TRUE: a shader manager was passed in; FALSE: NULL
    m_loadedTextures,   \* int: number of registered textures
    m_textureIDs,       \* the TEXTURE_INFO cells: 0..TextureCap-1 is the array,
                        \* higher indices are the memory that follows it
    m_objectMaterials,  \* std::vector<OBJECT_MATERIAL>
    m_basicMeshes,      \* the meshes ShapeMeshes has loaded
    glNextName,         \* GL: next unused texture name
    glActiveUnit,       \* GL: the active texture unit (glActiveTexture)
    glUnits,            \* GL: texture unit -> texture name bound to GL_TEXTURE_2D
    uniforms,           \* shader program: the uniforms SceneManager sets
    fault,              \* "none", or the undefined behaviour that has happened
    halted,             \* the process has crashed
    pc,                 \* position of the caller in PrepareScene / RenderScene
    lastCall,           \* the most recent call: operation, arguments, result
    trace,              \* the calls made directly on the SceneManager, in order
    nPrepares,          \* PrepareScene calls started
    nFrames,            \* RenderScene calls started
    files,              \* image file -> what stbi_load makes of it (0: nothing)
    drawn,              \* the meshes drawn by the current RenderScene call
    firstFrame          \* the uniforms at each draw of the first frame of the prepared scene

progVars == <<m_pShaderManager, m_loadedTextures, m_textureIDs, m_objectMaterials, m_basicMeshes>>
glVars == <<glNextName, glActiveUnit, glUnits, uniforms>>
texVars == <<m_loadedTextures, m_textureIDs, glNextName, glActiveUnit, glUnits>>
ctlVars == <<pc, nPrepares, nFrames, files, drawn, firstFrame>>
vars == <<m_pShaderManager, m_loadedTextures, m_textureIDs, m_objectMaterials,
          m_basicMeshes, glNextName, glActiveUnit, glUnits, uniforms, fault,
          halted, pc, lastCall, trace, nPrepares, nFrames, files, drawn, firstFrame>>

---------------------------------------------------------------------------
(* Bounds of the model *)

\* CreateGLTexture is not called once this many textures are registered.
MaxTextures == 17
\* Direct calls on the texture registry in one behaviour.
MaxTexCalls == 4
\* Direct calls on the material registry in one behaviour.
MaxMatCalls == 4
\* SetTransformations calls in one behaviour of the composer.
MaxXformCalls == 1
\* PrepareScene and RenderScene calls in one behaviour of the scene.
MaxPrepares == 3
MaxFrames == 2
\* Scene image files that fail to decode.
MaxBadFiles == 2

(* Program constants *)

\* m_textureIDs[16]: the loop bound of the constructor.
TextureCap == 16
\* Fixed-point unit: one is a thousand thousandths.
Q == 10 * 100

---------------------------------------------------------------------------
(* Inputs *)

\* stbi_load's outcome: 0 stands for a null image, n > 0 for colorChannels.
Channels == {0, 1, 2, 3, 4}
\* Tags of the direct calls; "/0" is the tag the constructor writes.
Tags == {"mugTexture", "tableTexture", "/0"}
\* Tags the direct calls register textures under.
LoadTags == {"mugTexture", "tableTexture"}

NoCall == [op |-> "none"]
Idle == [fn |-> "idle", i |-> 0]

---------------------------------------------------------------------------
(* Construction *)

\* Memory past the array holds something the constructor never wrote.
Unwritten == [tag |-> "", ID |-> 0]

\* SceneManager::SceneManager: every array cell gets tag "/0" and ID -1.
InitTextureIDs ==
    [i \in 0..(MaxTextures - 1) |->
        IF i < TextureCap THEN [tag |-> "/0", ID |-> -1] ELSE Unwritten]

\* The uniforms of a freshly linked shader program are all zero.
Vec3Zero == <<0, 0, 0>>
Mat4Zero == <<<<0, 0, 0, 0>>, <<0, 0, 0, 0>>, <<0, 0, 0, 0>>, <<0, 0, 0, 0>>>>
InitUniforms ==
    [model |-> Mat4Zero,
     bUseTexture |-> 0,
     bUseLighting |-> FALSE,
     objectColor |-> <<0, 0, 0, 0>>,
     objectTexture |-> 0,
     UVscale |-> <<0, 0>>,
     material |-> [diffuseColor |-> Vec3Zero, specularColor |-> Vec3Zero, shininess |-> 0],
     directionalLight |-> [direction |-> Vec3Zero, ambient |-> Vec3Zero,
                           diffuse |-> Vec3Zero, specular |-> Vec3Zero, bActive |-> FALSE],
     pointLights0 |-> [position |-> Vec3Zero, ambient |-> Vec3Zero, diffuse |-> Vec3Zero,
                       specular |-> Vec3Zero, constant |-> 0, linear |-> 0,
                       quadratic |-> 0, bActive |-> FALSE]]

\* The eight image files of LoadSceneTextures.
SceneFiles ==
    {"Textures/Mug_Texture.jpg", "Textures/Table_Texture.jpg", "Textures/Trout_Texture.jpg",
     "Textures/Rod_Texture.jpg", "Textures/Box_Texture.jpg", "Textures/Cork_Texture.jpg",
     "Textures/Tail_Texture.jpg", "Textures/Reel_Texture.jpg"}
\* What a scene file decodes to: nothing, or three channels.
SceneDecodes == {0, 3}

InitProgram ==
    /\ m_pShaderManager \in BOOLEAN
    /\ m_loadedTextures = 0
    /\ m_textureIDs = InitTextureIDs
    /\ m_objectMaterials = <<>>
    /\ m_basicMeshes = {}
    /\ glNextName = 1
    /\ glActiveUnit = 0
    /\ glUnits = [u \in 0..(MaxTextures - 1) |-> 0]
    /\ uniforms = InitUniforms
    /\ fault = "none"
    /\ halted = FALSE
    /\ pc = Idle
    /\ lastCall = NoCall
    /\ trace = <<>>
    /\ nPrepares = 0
    /\ nFrames = 0
    /\ drawn = <<>>
    /\ firstFrame = <<>>

\* A fresh SceneManager with every scene file a three-channel image.
Init == InitProgram /\ files = [f \in SceneFiles |-> 3]

\* A fresh SceneManager with up to MaxBadFiles of the scene files unreadable.
InitScene ==
    /\ InitProgram
    /\ files \in [SceneFiles -> SceneDecodes]
    /\ Cardinality({f \in SceneFiles : files[f] = 0}) <= MaxBadFiles

---------------------------------------------------------------------------
(* Texture registry *)

\* Every decoded image is uploaded, whatever its channel count.
AnyChannels(ch) == ch >= 1

\* CreateGLTexture: colorChannels == 3 or colorChannels == 4 is uploaded.
SupportedChannels(ch) == ch = 3 \/ ch = 4

CreateCall(tag, ch, ret, id, returned) ==
    [op |-> "CreateGLTexture", tag |-> tag, channels |-> ch, ret |-> ret,
     id |-> id, returned |-> returned]

\* Registration that stores every texture in the first cell.
RegisterTextureFirstCell(tag, ch, textureID) ==
    /\ m_textureIDs' = [m_textureIDs EXCEPT ![0] = [tag |-> tag, ID |-> textureID]]
    /\ m_loadedTextures' = m_loadedTextures + 1
    /\ UNCHANGED <<fault, halted>>
    /\ lastCall' = CreateCall(tag, ch, TRUE, textureID, TRUE)

\* The three statements that register the texture.  A write at an index the
\* array does not have is undefined: it lands in the memory after the array and
\* the call returns, or the process dies in it.
RegisterTexture(tag, ch, textureID) ==
    IF m_loadedTextures < TextureCap
    THEN /\ m_textureIDs' = [m_textureIDs EXCEPT
                                ![m_loadedTextures] = [tag |-> tag, ID |-> textureID]]
         /\ m_loadedTextures' = m_loadedTextures + 1
         /\ UNCHANGED <<fault, halted>>
         /\ lastCall' = CreateCall(tag, ch, TRUE, textureID, TRUE)
    ELSE \E survives \in BOOLEAN :
         /\ fault' = "oob_write"
         /\ halted' = ~survives
         /\ IF survives
            THEN /\ m_textureIDs' = [m_textureIDs EXCEPT
                                        ![m_loadedTextures] = [tag |-> tag, ID |-> textureID]]
                 /\ m_loadedTextures' = m_loadedTextures + 1
            ELSE UNCHANGED <<m_loadedTextures, m_textureIDs>>
         /\ lastCall' = CreateCall(tag, ch, survives, textureID, survives)

\* SceneManager::CreateGLTexture(filename, tag), stbi_load having produced ch.
CreateGLTexture(ch, tag) ==
    IF ch = 0
    THEN \* image == NULL: "Could not load image"
         /\ UNCHANGED <<texVars, fault, halted>>
         /\ lastCall' = CreateCall(tag, ch, FALSE, 0, TRUE)
    ELSE LET textureID == glNextName IN       \* glGenTextures(1, &textureID)
         /\ glNextName' = glNextName + 1
         /\ UNCHANGED glActiveUnit
         /\ IF ~SupportedChannels(ch)
            THEN \* return false with the new texture still bound
                 /\ glUnits' = [glUnits EXCEPT ![glActiveUnit] = textureID]
                 /\ UNCHANGED <<m_loadedTextures, m_textureIDs, fault, halted>>
                 /\ lastCall' = CreateCall(tag, ch, FALSE, textureID, TRUE)
            ELSE \* glBindTexture(GL_TEXTURE_2D, 0), then register
                 /\ glUnits' = [glUnits EXCEPT ![glActiveUnit] = 0]
                 /\ RegisterTexture(tag, ch, textureID)

\* GL_TEXTURE0 + i
BindUnitZero(i) == 0
BindUnit(i) == i

RECURSIVE BindLoop(_, _)
\* The loop of BindGLTextures from index i on, over the unit bindings.
BindLoop(i, units) ==
    IF i < m_loadedTextures
    THEN BindLoop(i + 1, [units EXCEPT ![BindUnit(i)] = m_textureIDs[i].ID])
    ELSE units

\* SceneManager::BindGLTextures
BindGLTextures ==
    /\ glUnits' = BindLoop(0, glUnits)
    /\ glActiveUnit' = IF m_loadedTextures > 0
                       THEN BindUnit(m_loadedTextures - 1) ELSE glActiveUnit
    /\ UNCHANGED <<m_loadedTextures, m_textureIDs, glNextName, fault, halted>>
    /\ lastCall' = [op |-> "BindGLTextures", returned |-> TRUE]

RECURSIVE FindTextureIDLoop(_, _)
FindTextureIDLoop(tag, index) ==
    IF index < m_loadedTextures
    THEN IF m_textureIDs[index].tag = tag
         THEN m_textureIDs[index].ID
         ELSE FindTextureIDLoop(tag, index + 1)
    ELSE -1

\* SceneManager::FindTextureID
FindTextureID(tag) == FindTextureIDLoop(tag, 0)

RECURSIVE FindTextureSlotLoop(_, _)
FindTextureSlotLoop(tag, index) ==
    IF index < m_loadedTextures
    THEN IF m_textureIDs[index].tag = tag
         THEN index
         ELSE FindTextureSlotLoop(tag, index + 1)
    ELSE -1

RECURSIVE FindTextureSlotLastLoop(_, _, _)
FindTextureSlotLastLoop(tag, index, textureSlot) ==
    IF index < m_loadedTextures
    THEN FindTextureSlotLastLoop(tag, index + 1,
             IF m_textureIDs[index].tag = tag THEN index ELSE textureSlot)
    ELSE textureSlot

\* A scan that does not stop at the first match.
FindTextureSlotLast(tag) == FindTextureSlotLastLoop(tag, 0, -1)

\* SceneManager::FindTextureSlot
FindTextureSlot(tag) == FindTextureSlotLoop(tag, 0)

\* SceneManager::SetShaderTexture: what is handed to the shader manager.
SetShaderTexture(textureTag) ==
    /\ IF m_pShaderManager
       THEN uniforms' = [uniforms EXCEPT !.bUseTexture = 1,
                                         !.objectTexture = FindTextureSlot(textureTag)]
       ELSE UNCHANGED uniforms
    /\ UNCHANGED <<fault, halted>>
    /\ lastCall' = [op |-> "SetShaderTexture", tag |-> textureTag, returned |-> TRUE]

---------------------------------------------------------------------------
(* Direct calls on the texture registry *)

Running == ~halted /\ pc = Idle

CallCreateGLTexture ==
    /\ Running
    /\ Len(trace) < MaxTexCalls
    /\ m_loadedTextures < MaxTextures
    /\ \E ch \in Channels, tag \in LoadTags : CreateGLTexture(ch, tag)
    /\ trace' = Append(trace, lastCall')
    /\ UNCHANGED <<m_pShaderManager, m_objectMaterials, m_basicMeshes, uniforms, ctlVars>>

CallBindGLTextures ==
    /\ Running
    /\ Len(trace) < MaxTexCalls
    /\ BindGLTextures
    /\ trace' = Append(trace, lastCall')
    /\ UNCHANGED <<m_pShaderManager, m_objectMaterials, m_basicMeshes, uniforms, ctlVars>>

CallSetShaderTexture ==
    /\ Running
    /\ Len(trace) < MaxTexCalls
    /\ \E tag \in Tags : SetShaderTexture(tag)
    /\ trace' = Append(trace, lastCall')
    /\ UNCHANGED <<m_pShaderManager, m_objectMaterials, m_basicMeshes, texVars, ctlVars>>

NextTextures == CallCreateGLTexture \/ CallBindGLTextures \/ CallSetShaderTexture

SpecTextures == Init /\ [][NextTextures]_vars

---------------------------------------------------------------------------
(* Claims about the texture registry, checked under SpecTextures *)

SetMin(S) == CHOOSE x \in S : \A y \in S : x <= y

IsSuccessfulLoad(c) == c.op = "CreateGLTexture" /\ c.returned /\ c.ret
IsLoad(c) == c.op = "CreateGLTexture"

\* The successful loads so far, in call order.
SuccessfulLoads == SelectSeq(trace, IsSuccessfulLoad)

\* C1: after at most 16 loads, the i-th successful load (from 0) with tag t has
\* FindTextureSlot(t) = i and FindTextureID(t) = the handle that load created,
\* neither being -1.
C1_SlotIsLoadOrder ==
    Len(SelectSeq(trace, IsLoad)) <= TextureCap =>
        \A i \in 1..Len(SuccessfulLoads) :
            /\ FindTextureSlot(SuccessfulLoads[i].tag) = i - 1
            /\ FindTextureID(SuccessfulLoads[i].tag) = SuccessfulLoads[i].id
            /\ FindTextureSlot(SuccessfulLoads[i].tag) # -1
            /\ FindTextureID(SuccessfulLoads[i].tag) # -1

\* The indices below m_loadedTextures whose entry carries the tag.
EntriesTagged(t) == {i \in 0..(m_loadedTextures - 1) : m_textureIDs[i].tag = t}

\* C2: in every state and for every tag t, FindTextureSlot(t) is the lowest
\* index below m_loadedTextures whose entry has tag t and FindTextureID(t) is
\* that entry's handle; both are -1 when no entry has tag t.
C2_FirstMatchOrSentinel ==
    \A t \in Tags :
        IF EntriesTagged(t) = {}
        THEN FindTextureSlot(t) = -1 /\ FindTextureID(t) = -1
        ELSE /\ FindTextureSlot(t) = SetMin(EntriesTagged(t))
             /\ FindTextureID(t) = m_textureIDs[SetMin(EntriesTagged(t))].ID

\* Two entries share a tag, the lookup answers with the earlier one, and
\* another tag is not registered at all.
C2_Witness ==
    /\ \E t \in Tags : Cardinality(EntriesTagged(t)) >= 2 /\ FindTextureSlot(t) = 0
    /\ \E t \in Tags : EntriesTagged(t) = {} /\ FindTextureSlot(t) = -1

\* C3: a CreateGLTexture call whose image does not decode, or decodes with a
\* channel count other than 3 or 4, returns false and leaves m_loadedTextures
\* and every stored entry as they were.
C3_FailedLoadKeepsRegistry ==
    [][(/\ Len(trace') = Len(trace) + 1
        /\ lastCall'.op = "CreateGLTexture"
        /\ lastCall'.channels \notin {3, 4})
       => (/\ lastCall'.returned
           /\ lastCall'.ret = FALSE
           /\ m_loadedTextures' = m_loadedTextures
           /\ m_textureIDs' = m_textureIDs)]_vars

\* A load of a one- or two-channel image has just failed on a registry that
\* already holds a texture.
C3_Witness ==
    /\ lastCall.op = "CreateGLTexture"
    /\ lastCall.channels \in {1, 2}
    /\ lastCall.ret = FALSE
    /\ m_loadedTextures > 0

\* BindGLTextures has run and no CreateGLTexture call was made after it.
BoundAfterLoads ==
    \E j \in 1..Len(trace) :
        /\ trace[j].op = "BindGLTextures"
        /\ \A k \in (j + 1)..Len(trace) : trace[k].op # "CreateGLTexture"

\* C5: after the loads and then BindGLTextures, for every registered tag t the
\* texture unit FindTextureSlot(t) is bound to the handle FindTextureID(t), and
\* SetShaderTexture(t) hands the sampler objectTexture exactly FindTextureSlot(t).
C5_SamplerIsBoundUnit ==
    BoundAfterLoads =>
        \A t \in Tags :
            FindTextureSlot(t) # -1 =>
                /\ glUnits[FindTextureSlot(t)] = FindTextureID(t)
                /\ (/\ m_pShaderManager
                    /\ lastCall.op = "SetShaderTexture"
                    /\ lastCall.tag = t)
                   => /\ uniforms.objectTexture = FindTextureSlot(t)
                      /\ uniforms.bUseTexture = 1

\* Two textures were loaded and bound, and the second one's tag was then
\* handed to SetShaderTexture.
C5_Witness ==
    /\ BoundAfterLoads
    /\ m_pShaderManager
    /\ lastCall.op = "SetShaderTexture"
    /\ FindTextureSlot(lastCall.tag) = 1
    /\ uniforms.objectTexture = 1
    /\ glUnits[1] = m_textureIDs[1].ID

---------------------------------------------------------------------------
(* Material registry *)

Material(tag, diffuseColor, specularColor, shininess) ==
    [tag |-> tag, diffuseColor |-> diffuseColor, specularColor |-> specularColor,
     shininess |-> shininess]

\* The five materials of DefineObjectMaterials, in thousandths.
woodMaterial == Material("wood", <<200, 200, 300>>, <<0, 0, 0>>, 5000)
ceramicMaterial == Material("mug", <<400, 400, 400>>, <<200, 200, 200>>, 30000)
tackleMaterial == Material("tackleBox", <<400, 400, 400>>, <<200, 200, 200>>, 15000)
fishMaterial == Material("fish", <<600, 600, 600>>, <<300, 300, 300>>, 50000)
corkMaterial == Material("cork", <<800, 600, 400>>, <<100, 100, 100>>, 5000)

\* SceneManager::DefineObjectMaterials: five push_back calls.
DefineObjectMaterials ==
    /\ m_objectMaterials' = m_objectMaterials \o
           <<woodMaterial, ceramicMaterial, tackleMaterial, fishMaterial, corkMaterial>>
    /\ lastCall' = [op |-> "DefineObjectMaterials", returned |-> TRUE]

\* m_objectMaterials.push_back(material)
PushMaterial(material) ==
    /\ m_objectMaterials' = Append(m_objectMaterials, material)
    /\ lastCall' = [op |-> "push_back", tag |-> material.tag, returned |-> TRUE]

RECURSIVE FindMaterialLoopEntryZero(_, _, _)
\* The loop copying out of entry 0 instead of entry index.
FindMaterialLoopEntryZero(tag, index, material) ==
    IF index < Len(m_objectMaterials)
    THEN IF m_objectMaterials[index + 1].tag = tag
         THEN [material EXCEPT
                  !.diffuseColor = m_objectMaterials[1].diffuseColor,
                  !.specularColor = m_objectMaterials[1].specularColor,
                  !.shininess = m_objectMaterials[1].shininess]
         ELSE FindMaterialLoopEntryZero(tag, index + 1, material)
    ELSE material

RECURSIVE FindMaterialLoop(_, _, _)
\* The while loop of FindMaterial from index on: the caller's material after it.
FindMaterialLoop(tag, index, material) ==
    IF index < Len(m_objectMaterials)
    THEN IF m_objectMaterials[index + 1].tag = tag
         THEN [material EXCEPT
                  !.diffuseColor = m_objectMaterials[index + 1].diffuseColor,
                  !.specularColor = m_objectMaterials[index + 1].specularColor,
                  !.shininess = m_objectMaterials[index + 1].shininess]
         ELSE FindMaterialLoop(tag, index + 1, material)
    ELSE material

RECURSIVE FoundLoop(_, _)
\* bFound when the while loop of FindMaterial ends.
FoundLoop(tag, index) ==
    IF index < Len(m_objectMaterials)
    THEN IF m_objectMaterials[index + 1].tag = tag THEN TRUE ELSE FoundLoop(tag, index + 1)
    ELSE FALSE

\* A FindMaterial that returns bFound.
FindMaterialReturnsFound(tag, material) ==
    IF Len(m_objectMaterials) = 0
    THEN [ret |-> FALSE, material |-> material]
    ELSE [ret |-> FoundLoop(tag, 0), material |-> FindMaterialLoop(tag, 0, material)]

\* SceneManager::FindMaterial(tag, material&): the value returned and the
\* caller's material afterwards.
FindMaterial(tag, material) ==
    IF Len(m_objectMaterials) = 0
    THEN [ret |-> FALSE, material |-> material]
    ELSE [ret |-> TRUE, material |-> FindMaterialLoop(tag, 0, material)]

\* What the uninitialised local "OBJECT_MATERIAL material" of SetShaderMaterial
\* may hold: zeroes, junk, or what the previous call left on the stack.
UninitMaterials ==
    {Material("", Vec3Zero, Vec3Zero, 0),
     Material("", <<-7, -7, -7>>, <<-7, -7, -7>>, -7),
     Material("", uniforms.material.diffuseColor, uniforms.material.specularColor,
              uniforms.material.shininess)}

\* SceneManager::SetShaderMaterial.  m_pShaderManager is used unchecked: with a
\* null pointer the three calls are undefined, and the process dies in them or
\* survives them with nothing set.
SetShaderMaterial(materialTag) ==
    IF Len(m_objectMaterials) > 0
    THEN \E material \in UninitMaterials :
            LET r == FindMaterial(materialTag, material) IN
            IF r.ret
            THEN IF m_pShaderManager
                 THEN /\ uniforms' = [uniforms EXCEPT !.material =
                             [diffuseColor |-> r.material.diffuseColor,
                              specularColor |-> r.material.specularColor,
                              shininess |-> r.material.shininess]]
                      /\ UNCHANGED <<fault, halted>>
                      /\ lastCall' = [op |-> "SetShaderMaterial", tag |-> materialTag,
                                      local |-> material, returned |-> TRUE]
                 ELSE \E survives \in BOOLEAN :
                      /\ fault' = "null_deref"
                      /\ halted' = ~survives
                      /\ UNCHANGED uniforms
                      /\ lastCall' = [op |-> "SetShaderMaterial", tag |-> materialTag,
                                      local |-> material, returned |-> survives]
            ELSE /\ UNCHANGED <<uniforms, fault, halted>>
                 /\ lastCall' = [op |-> "SetShaderMaterial", tag |-> materialTag,
                                 local |-> material, returned |-> TRUE]
    ELSE /\ UNCHANGED <<uniforms, fault, halted>>
         /\ lastCall' = [op |-> "SetShaderMaterial", tag |-> materialTag,
                         local |-> Material("", Vec3Zero, Vec3Zero, 0), returned |-> TRUE]

---------------------------------------------------------------------------
(* Direct calls on the material registry *)

\* Materials of the direct push_back calls: three of the scene's, and a second
\* "wood" with other values.
SampleMaterials ==
    {woodMaterial, ceramicMaterial, tackleMaterial,
     Material("wood", <<100, 900, 100>>, <<500, 500, 500>>, 1000)}
MaterialTags == {"wood", "mug", "tackleBox", "glass"}

CallPushMaterial ==
    /\ Running
    /\ Len(trace) < MaxMatCalls
    /\ \E material \in SampleMaterials : PushMaterial(material)
    /\ trace' = Append(trace, lastCall')
    /\ UNCHANGED <<m_pShaderManager, m_basicMeshes, texVars, uniforms, fault, halted, ctlVars>>

CallDefineObjectMaterials ==
    /\ Running
    /\ Len(trace) < MaxMatCalls
    /\ DefineObjectMaterials
    /\ trace' = Append(trace, lastCall')
    /\ UNCHANGED <<m_pShaderManager, m_basicMeshes, texVars, uniforms, fault, halted, ctlVars>>

CallSetShaderMaterial ==
    /\ Running
    /\ Len(trace) < MaxMatCalls
    /\ \E tag \in MaterialTags : SetShaderMaterial(tag)
    /\ trace' = Append(trace, lastCall')
    /\ UNCHANGED <<m_pShaderManager, m_objectMaterials, m_basicMeshes, texVars, ctlVars>>

NextMaterials == CallPushMaterial \/ CallDefineObjectMaterials \/ CallSetShaderMaterial

SpecMaterials == Init /\ [][NextMaterials]_vars

---------------------------------------------------------------------------
(* Claims about the material registry, checked under SpecMaterials *)

EntriesWithTag(t) == {i \in 1..Len(m_objectMaterials) : m_objectMaterials[i].tag = t}
FirstWithTag(t) == m_objectMaterials[SetMin(EntriesWithTag(t))]

MaterialValues(m) == <<m.diffuseColor, m.specularColor, m.shininess>>

\* C4: for every tag t carried by at least one entry, FindMaterial(t, m) returns
\* true and sets m's diffuseColor, specularColor and shininess to those of the
\* first entry whose tag is t; SetShaderMaterial(t) hands these on.
C4_FindMaterialFirstMatch ==
    \A t \in MaterialTags :
        EntriesWithTag(t) # {} =>
            /\ \A m \in UninitMaterials :
                   /\ FindMaterial(t, m).ret = TRUE
                   /\ MaterialValues(FindMaterial(t, m).material)
                          = MaterialValues(FirstWithTag(t))
            /\ (/\ m_pShaderManager
                /\ lastCall.op = "SetShaderMaterial"
                /\ lastCall.tag = t)
               => MaterialValues(uniforms.material) = MaterialValues(FirstWithTag(t))

\* "wood" then "mug" are defined, and SetShaderMaterial("mug") has handed the
\* mug's values, which are not the wood's, to the shader.
C4_Witness ==
    /\ Len(m_objectMaterials) >= 2
    /\ m_objectMaterials[1].tag = "wood"
    /\ m_objectMaterials[2].tag = "mug"
    /\ m_pShaderManager
    /\ lastCall.op = "SetShaderMaterial"
    /\ lastCall.tag = "mug"
    /\ MaterialValues(uniforms.material) = MaterialValues(ceramicMaterial)
    /\ MaterialValues(uniforms.material) # MaterialValues(m_objectMaterials[1])

\* C10: FindMaterial returns false exactly when the registry is empty; for a
\* tag that matches no entry of a non-empty registry it returns true and leaves
\* the caller's material as passed in, and SetShaderMaterial hands those values
\* to the shader.
C10_NotFoundOnlyWhenEmpty ==
    /\ \A t \in MaterialTags : \A m \in UninitMaterials :
           /\ FindMaterial(t, m).ret = FALSE <=> Len(m_objectMaterials) = 0
           /\ EntriesWithTag(t) = {} => FindMaterial(t, m).material = m
    /\ (/\ m_pShaderManager
        /\ lastCall.op = "SetShaderMaterial"
        /\ Len(m_objectMaterials) > 0
        /\ EntriesWithTag(lastCall.tag) = {})
       => MaterialValues(uniforms.material) = MaterialValues(lastCall.local)

\* SetShaderMaterial was called with a tag no entry of the non-empty registry
\* has, and the junk of its local is now in the shader's material.
C10_Witness ==
    /\ m_pShaderManager
    /\ lastCall.op = "SetShaderMaterial"
    /\ Len(m_objectMaterials) > 0
    /\ EntriesWithTag(lastCall.tag) = {}
    /\ lastCall.local.shininess = -7
    /\ uniforms.material.shininess = -7

---------------------------------------------------------------------------
(* Transform composer.  A mat4 is m[column][row], as in GLM; entries and   *)
(* vector components are thousandths.                                      *)

\* cos and sin of the angles the program uses, in thousandths (glm::radians
\* followed by cos/sin, rounded).
Cos(deg) ==
    LET d == deg % 360 IN
    CASE d = 0 -> 1000 [] d = 10 -> 985 [] d = 15 -> 966 [] d = 30 -> 866
      [] d = 54 -> 588 [] d = 90 -> 0 [] d = 180 -> -1000 [] d = 270 -> 0
      [] d = 340 -> 940
Sin(deg) ==
    LET d == deg % 360 IN
    CASE d = 0 -> 0 [] d = 10 -> 174 [] d = 15 -> 259 [] d = 30 -> 500
      [] d = 54 -> 809 [] d = 90 -> 1000 [] d = 180 -> 0 [] d = 270 -> -1000
      [] d = 340 -> -342

\* Product of two fixed-point numbers, rounded to the nearest thousandth.
FixMul(x, y) == (x * y + (Q \div 2)) \div Q

Mat4(c1, c2, c3, c4) == <<c1, c2, c3, c4>>

\* glm::scale(v)
glmScale(v) ==
    Mat4(<<v[1], 0, 0, 0>>, <<0, v[2], 0, 0>>, <<0, 0, v[3], 0>>, <<0, 0, 0, Q>>)

\* glm::translate(v)
glmTranslate(v) ==
    Mat4(<<Q, 0, 0, 0>>, <<0, Q, 0, 0>>, <<0, 0, Q, 0>>, <<v[1], v[2], v[3], Q>>)

\* glm::rotate(glm::radians(deg), axis) for a unit axis given in whole units.
glmRotate(deg, axis) ==
    LET c == Cos(deg)
        s == Sin(deg)
        temp == <<(Q - c) * axis[1], (Q - c) * axis[2], (Q - c) * axis[3]>>
    IN Mat4(<<c + temp[1] * axis[1],
              temp[1] * axis[2] + s * axis[3],
              temp[1] * axis[3] - s * axis[2], 0>>,
            <<temp[2] * axis[1] - s * axis[3],
              c + temp[2] * axis[2],
              temp[2] * axis[3] + s * axis[1], 0>>,
            <<temp[3] * axis[1] + s * axis[2],
              temp[3] * axis[2] - s * axis[1],
              c + temp[3] * axis[3], 0>>,
            <<0, 0, 0, Q>>)

\* operator*(mat4, mat4)
MatMulEntry(a, b, c, r) ==
    FixMul(a[1][r], b[c][1]) + FixMul(a[2][r], b[c][2])
    + FixMul(a[3][r], b[c][3]) + FixMul(a[4][r], b[c][4])
MatMulColumn(a, b, c) ==
    <<MatMulEntry(a, b, c, 1), MatMulEntry(a, b, c, 2),
      MatMulEntry(a, b, c, 3), MatMulEntry(a, b, c, 4)>>
MatMul(a, b) ==
    <<MatMulColumn(a, b, 1), MatMulColumn(a, b, 2),
      MatMulColumn(a, b, 3), MatMulColumn(a, b, 4)>>

\* The factors multiplied in the opposite order.
ModelViewReversed(translation, rotationZ, rotationY, rotationX, scale) ==
    MatMul(MatMul(MatMul(MatMul(scale, rotationX), rotationY), rotationZ), translation)

\* modelView = translation * rotationZ * rotationY * rotationX * scale
ModelView(translation, rotationZ, rotationY, rotationX, scale) ==
    MatMul(MatMul(MatMul(MatMul(translation, rotationZ), rotationY), rotationX), scale)

\* SceneManager::SetTransformations
SetTransformations(scaleXYZ, XrotationDegrees, YrotationDegrees, ZrotationDegrees, positionXYZ) ==
    LET scale == glmScale(scaleXYZ)
        rotationX == glmRotate(XrotationDegrees, <<1, 0, 0>>)
        rotationY == glmRotate(YrotationDegrees, <<0, 1, 0>>)
        rotationZ == glmRotate(ZrotationDegrees, <<0, 0, 1>>)
        translation == glmTranslate(positionXYZ)
        modelView == ModelView(translation, rotationZ, rotationY, rotationX, scale)
    IN /\ IF m_pShaderManager
          THEN uniforms' = [uniforms EXCEPT !.model = modelView]
          ELSE UNCHANGED uniforms
       /\ UNCHANGED <<fault, halted>>
       /\ lastCall' = [op |-> "SetTransformations", scale |-> scaleXYZ,
                       x |-> XrotationDegrees, y |-> YrotationDegrees,
                       z |-> ZrotationDegrees, position |-> positionXYZ,
                       returned |-> TRUE]

---------------------------------------------------------------------------
(* Direct calls on the transform composer *)

XformScales == {<<1000, 1000, 1000>>, <<2000, 1000, 1000>>, <<1000, 2000, 3000>>}
XformAngles == {0, 90, 180, -90}
XformPositions == {<<0, 0, 0>>, <<3000, 0, 0>>}

CallSetTransformations ==
    /\ Running
    /\ Len(trace) < MaxXformCalls
    /\ \E scaleXYZ \in XformScales, x \in XformAngles, y \in XformAngles,
          z \in XformAngles, positionXYZ \in XformPositions :
          SetTransformations(scaleXYZ, x, y, z, positionXYZ)
    /\ trace' = Append(trace, lastCall')
    /\ UNCHANGED <<m_pShaderManager, m_objectMaterials, m_basicMeshes, texVars, ctlVars>>

NextXform == CallSetTransformations

SpecXform == Init /\ [][NextXform]_vars

---------------------------------------------------------------------------
(* Claims about the transform composer, checked under SpecXform *)

\* The mat4 applied to the point (v, 1).
TransformRow(m, v, r) ==
    FixMul(m[1][r], v[1]) + FixMul(m[2][r], v[2]) + FixMul(m[3][r], v[3]) + m[4][r]
Transform(m, v) == <<TransformRow(m, v, 1), TransformRow(m, v, 2), TransformRow(m, v, 3)>>

\* Quarter turns of a vector about the axes, counter-clockwise seen from the
\* positive end of the axis.
TurnX(v) == <<v[1], -v[3], v[2]>>
TurnY(v) == <<v[3], v[2], -v[1]>>
TurnZ(v) == <<-v[2], v[1], v[3]>>
RECURSIVE Turns(_, _, _)
Turns(axis, n, v) ==
    IF n = 0 THEN v
    ELSE Turns(axis, n - 1,
               CASE axis = "x" -> TurnX(v) [] axis = "y" -> TurnY(v) [] axis = "z" -> TurnZ(v))
QuarterTurns(deg) == (deg % 360) \div 90

\* Scale, then turn about X, then Y, then Z, then translate.
Placed(c, v) ==
    LET scaled == <<FixMul(c.scale[1], v[1]), FixMul(c.scale[2], v[2]),
                    FixMul(c.scale[3], v[3])>>
        turned == Turns("z", QuarterTurns(c.z),
                      Turns("y", QuarterTurns(c.y),
                          Turns("x", QuarterTurns(c.x), scaled)))
    IN <<turned[1] + c.position[1], turned[2] + c.position[2], turned[3] + c.position[3]>>

\* The origin, the unit points of the axes and one more point: an affine map
\* is fixed by the first four.
ProbePoints ==
    {<<0, 0, 0>>, <<1000, 0, 0>>, <<0, 1000, 0>>, <<0, 0, 1000>>, <<1000, -2000, 3000>>}

Mat4Identity == glmScale(<<Q, Q, Q>>)

\* C6: the matrix SetTransformations hands to "model" is
\* Translate(T) * RotateZ(z) * RotateY(y) * RotateX(x) * Scale(S): it scales a
\* point, turns it about X, then Y, then Z, and translates it; identity inputs
\* give the identity matrix, and S = (2,1,1), y = 90, T = (3,0,0) takes the
\* point (1,0,0) to (3,0,-2).
C6_ModelIsTRzRyRxS ==
    (m_pShaderManager /\ lastCall.op = "SetTransformations") =>
        /\ \A v \in ProbePoints : Transform(uniforms.model, v) = Placed(lastCall, v)
        /\ \A c \in 1..4 : uniforms.model[c][4] = (IF c = 4 THEN Q ELSE 0)
        /\ (/\ lastCall.scale = <<1000, 1000, 1000>>
            /\ lastCall.x % 360 = 0 /\ lastCall.y % 360 = 0 /\ lastCall.z % 360 = 0
            /\ lastCall.position = <<0, 0, 0>>)
           => uniforms.model = Mat4Identity
        /\ (/\ lastCall.scale = <<2000, 1000, 1000>>
            /\ lastCall.x = 0 /\ lastCall.y = 90 /\ lastCall.z = 0
            /\ lastCall.position = <<3000, 0, 0>>)
           => Transform(uniforms.model, <<1000, 0, 0>>) = <<3000, 0, -2000>>

\* SetTransformations was called with S = (2,1,1), y = 90, T = (3,0,0) and the
\* matrix in "model" takes (1,0,0) to (3,0,-2).
C6_Witness ==
    /\ m_pShaderManager
    /\ lastCall.op = "SetTransformations"
    /\ lastCall.scale = <<2000, 1000, 1000>>
    /\ lastCall.x = 0 /\ lastCall.y = 90 /\ lastCall.z = 0
    /\ lastCall.position = <<3000, 0, 0>>
    /\ Transform(uniforms.model, <<1000, 0, 0>>) = <<3000, 0, -2000>>

---------------------------------------------------------------------------
(* The other uniform setters, the lights and the meshes *)

\* SceneManager::SetShaderColor
SetShaderColor(redColorValue, greenColorValue, blueColorValue, alphaValue) ==
    /\ IF m_pShaderManager
       THEN uniforms' = [uniforms EXCEPT
                !.bUseTexture = 0,
                !.objectColor = <<redColorValue, greenColorValue, blueColorValue, alphaValue>>]
       ELSE UNCHANGED uniforms
    /\ UNCHANGED <<fault, halted>>
    /\ lastCall' = [op |-> "SetShaderColor", returned |-> TRUE]

\* SceneManager::SetTextureUVScale
SetTextureUVScale(u, v) ==
    /\ IF m_pShaderManager
       THEN uniforms' = [uniforms EXCEPT !.UVscale = <<u, v>>]
       ELSE UNCHANGED uniforms
    /\ UNCHANGED <<fault, halted>>
    /\ lastCall' = [op |-> "SetTextureUVScale", returned |-> TRUE]

\* SceneManager::SetupSceneLights.  m_pShaderManager is used unchecked: with a
\* null pointer the calls are undefined, and the process dies in them or
\* survives them with nothing set.
SetupSceneLights ==
    IF m_pShaderManager
    THEN /\ uniforms' = [uniforms EXCEPT
                !.bUseLighting = TRUE,
                !.directionalLight =
                    [direction |-> <<259, -864, 432>>,   \* normalize(0.3, -1.0, 0.5)
                     ambient |-> <<150, 150, 150>>,
                     diffuse |-> <<1000, 950, 800>>,
                     specular |-> <<800, 800, 800>>,
                     bActive |-> TRUE],
                !.pointLights0 =
                    [position |-> <<-2000, 6000, -4000>>,
                     ambient |-> <<200, 200, 200>>,
                     diffuse |-> <<1000, 980, 900>>,
                     specular |-> <<800, 800, 800>>,
                     constant |-> 1000,
                     linear |-> 45,
                     quadratic |-> 8,                    \* 0.0075
                     bActive |-> TRUE]]
         /\ UNCHANGED <<fault, halted>>
         /\ lastCall' = [op |-> "SetupSceneLights", returned |-> TRUE]
    ELSE \E survives \in BOOLEAN :
         /\ fault' = "null_deref"
         /\ halted' = ~survives
         /\ UNCHANGED uniforms
         /\ lastCall' = [op |-> "SetupSceneLights", returned |-> survives]

\* m_basicMeshes->Load...Mesh()
LoadMesh(mesh) ==
    /\ m_basicMeshes' = m_basicMeshes \cup {mesh}
    /\ lastCall' = [op |-> "LoadMesh", mesh |-> mesh, returned |-> TRUE]

\* m_basicMeshes->Draw...Mesh()
DrawMesh(mesh) ==
    /\ drawn' = Append(drawn, mesh)
    /\ lastCall' = [op |-> "Draw", mesh |-> mesh, returned |-> TRUE]

---------------------------------------------------------------------------
(* The scene: PrepareScene and RenderScene as the calls they make, in order *)

Load(file, tag) == [op |-> "CreateGLTexture", file |-> file, tag |-> tag]
Xf(scaleXYZ, x, y, z, positionXYZ) ==
    [op |-> "SetTransformations", scale |-> scaleXYZ, x |-> x, y |-> y, z |-> z,
     position |-> positionXYZ]
Color(r, g, b, a) == [op |-> "SetShaderColor", r |-> r, g |-> g, b |-> b, a |-> a]
Texture(tag) == [op |-> "SetShaderTexture", tag |-> tag]
UVScale(u, v) == [op |-> "SetTextureUVScale", u |-> u, v |-> v]
Mtl(tag) == [op |-> "SetShaderMaterial", tag |-> tag]
Draw(mesh) == [op |-> "Draw", mesh |-> mesh]
Op(name) == [op |-> name]
LoadMeshStep(mesh) == [op |-> "LoadMesh", mesh |-> mesh]

\* SceneManager::LoadSceneTextures
LoadSceneTexturesScript ==
    <<Load("Textures/Mug_Texture.jpg", "mugTexture"),
      Load("Textures/Table_Texture.jpg", "tableTexture"),
      Load("Textures/Trout_Texture.jpg", "troutTexture"),
      Load("Textures/Rod_Texture.jpg", "rodTexture"),
      Load("Textures/Box_Texture.jpg", "boxTexture"),
      Load("Textures/Cork_Texture.jpg", "corkTexture"),
      Load("Textures/Tail_Texture.jpg", "tailTexture"),
      Load("Textures/Reel_Texture.jpg", "reelTexture"),
      Op("BindGLTextures")>>

\* SceneManager::PrepareScene
PrepareSceneScript ==
    LoadSceneTexturesScript \o
    <<Op("DefineObjectMaterials"), Op("SetupSceneLights"),
      LoadMeshStep("Plane"), LoadMeshStep("Cylinder"), LoadMeshStep("Torus"),
      LoadMeshStep("Box"), LoadMeshStep("Sphere")>>

White == Color(1000, 1000, 1000, 1000)

\* RenderScene up to the eyelet loop: the twelve hand-written objects.
RenderObjectsScript ==
    <<\* plane
      Xf(<<25000, 1000, 15000>>, 0, 0, 0, <<0, -500, 0>>),
      Texture("tableTexture"), UVScale(4000, 3000), Mtl("wood"), Draw("Plane"),
      \* coffee mug
      Xf(<<1200, 2000, 1200>>, 0, 30, 0, <<4000, 0, 0>>),
      White, Texture("mugTexture"), UVScale(1000, 1000), Mtl("mug"), Draw("Cylinder"),
      \* mug handle
      Xf(<<500, 750, 500>>, 0, 0, 0, <<5250, 1000, 0>>),
      White, Texture("mugTexture"), UVScale(1000, 1000), Mtl("mug"), Draw("Torus"),
      \* coffee liquid
      Xf(<<1100, 100, 1100>>, 0, 30, 0, <<4000, 1910, 0>>),
      Color(200, 100, 50, 1000), Draw("Cylinder"),
      \* tackle box
      Xf(<<4000, 2000, 2500>>, 0, 15, 0, <<-4000, 1000, -1000>>),
      White, Texture("boxTexture"), UVScale(1000, 1000), Mtl("tackleBox"), Draw("Box"),
      \* fishing rod, cork handle
      Xf(<<300, 3000, 300>>, 0, -20, 90, <<0, 150, 2000>>),
      White, Texture("corkTexture"), UVScale(1000, 1000), Mtl("cork"), Draw("Cylinder"),
      \* rod shaft
      Xf(<<150, 14000, 150>>, 0, -20, 90, <<1250, 150, 2000>>),
      White, Texture("rodTexture"), UVScale(1000, 3000), Draw("Cylinder"),
      \* fishing reel
      Xf(<<600, 200, 600>>, 0, 0, 0, <<650, 50, 2750>>),
      White, Texture("reelTexture"), UVScale(1000, 1000), Mtl("tackleBox"), Draw("Cylinder"),
      \* side of the reel
      Xf(<<300, 100, 300>>, 0, 0, 0, <<650, 200, 2750>>),
      Color(200, 200, 200, 1000), Mtl("tackleBox"), Draw("Cylinder"),
      \* fish body
      Xf(<<3000, 800, 400>>, 270, 10, 0, <<0, -400, 6000>>),
      White, Texture("troutTexture"), UVScale(2000, 1000), Mtl("fish"), Draw("Sphere"),
      \* fish eye
      Xf(<<150, 150, 50>>, 270, 10, 10, <<-2300, -200, 6100>>),
      Color(100, 100, 100, 1000), Draw("Sphere"),
      \* fish tail
      Xf(<<800, 100, 800>>, 0, 54, 0, <<2950, -400, 5475>>),
      White, Texture("tailTexture"), UVScale(1000, 1000), Mtl("fish"), Draw("Box")>>

eyeletPositions == <<2500, 4500, 6500, 8500, 10500>>

\* The eyelet loop with its colour chosen ahead of the transform.
EyeletScriptColorFirst(i) ==
    <<Color(200, 200, 200, 1000),
      Xf(<<150, 150, 150>>, 0, 90, 0,
         <<-15000 + FixMul(eyeletPositions[i + 1], Cos(-20)),
           150,
           2260 + FixMul(eyeletPositions[i + 1], Sin(0))>>),
      Mtl("tackleBox"), Draw("Torus")>>

\* One iteration of the eyelet loop (i from 0).
EyeletScript(i) ==
    <<Xf(<<150, 150, 150>>, 0, 90, 0,
         <<-15000 + FixMul(eyeletPositions[i + 1], Cos(-20)),
           150,
           2260 + FixMul(eyeletPositions[i + 1], Sin(0))>>),
      Color(200, 200, 200, 1000), Mtl("tackleBox"), Draw("Torus")>>

steamHeights == <<2200, 2500, 2800>>
steamOffsets == <<100, -100, 0>>

\* One iteration of the steam loop (i from 0).
SteamScript(i) ==
    <<Xf(<<200, 200, 200>>, 0, 0, 0, <<4000 + steamOffsets[i + 1], steamHeights[i + 1], 0>>),
      Draw("Sphere")>>

\* RenderScene with the eyelet loop stopping one iteration early (i < 4).
RenderSceneScriptFourEyelets ==
    RenderObjectsScript
    \o EyeletScript(0) \o EyeletScript(1) \o EyeletScript(2) \o EyeletScript(3)
    \o <<Color(1000, 1000, 1000, 300)>>
    \o SteamScript(0) \o SteamScript(1) \o SteamScript(2)

\* SceneManager::RenderScene
RenderSceneScript ==
    RenderObjectsScript
    \o EyeletScript(0) \o EyeletScript(1) \o EyeletScript(2) \o EyeletScript(3)
    \o EyeletScript(4)
    \o <<Color(1000, 1000, 1000, 300)>>
    \o SteamScript(0) \o SteamScript(1) \o SteamScript(2)

Script(fn) == IF fn = "PrepareScene" THEN PrepareSceneScript ELSE RenderSceneScript

\* One call of a script, with everything that call leaves alone.
Exec(step) ==
    CASE step.op = "CreateGLTexture" ->
            /\ CreateGLTexture(files[step.file], step.tag)
            /\ UNCHANGED <<uniforms, m_objectMaterials, m_basicMeshes, drawn>>
      [] step.op = "BindGLTextures" ->
            /\ BindGLTextures
            /\ UNCHANGED <<uniforms, m_objectMaterials, m_basicMeshes, drawn>>
      [] step.op = "DefineObjectMaterials" ->
            /\ DefineObjectMaterials
            /\ UNCHANGED <<texVars, uniforms, fault, halted, m_basicMeshes, drawn>>
      [] step.op = "SetupSceneLights" ->
            /\ SetupSceneLights
            /\ UNCHANGED <<texVars, m_objectMaterials, m_basicMeshes, drawn>>
      [] step.op = "LoadMesh" ->
            /\ LoadMesh(step.mesh)
            /\ UNCHANGED <<texVars, uniforms, fault, halted, m_objectMaterials, drawn>>
      [] step.op = "SetTransformations" ->
            /\ SetTransformations(step.scale, step.x, step.y, step.z, step.position)
            /\ UNCHANGED <<texVars, m_objectMaterials, m_basicMeshes, drawn>>
      [] step.op = "SetShaderColor" ->
            /\ SetShaderColor(step.r, step.g, step.b, step.a)
            /\ UNCHANGED <<texVars, m_objectMaterials, m_basicMeshes, drawn>>
      [] step.op = "SetShaderTexture" ->
            /\ SetShaderTexture(step.tag)
            /\ UNCHANGED <<texVars, m_objectMaterials, m_basicMeshes, drawn>>
      [] step.op = "SetTextureUVScale" ->
            /\ SetTextureUVScale(step.u, step.v)
            /\ UNCHANGED <<texVars, m_objectMaterials, m_basicMeshes, drawn>>
      [] step.op = "SetShaderMaterial" ->
            /\ SetShaderMaterial(step.tag)
            /\ UNCHANGED <<texVars, m_objectMaterials, m_basicMeshes, drawn>>
      [] step.op = "Draw" ->
            /\ DrawMesh(step.mesh)
            /\ UNCHANGED <<texVars, uniforms, fault, halted, m_objectMaterials, m_basicMeshes>>

\* The uniforms a draw call renders with.
DrawUniforms ==
    [model |-> uniforms.model,
     bUseTexture |-> uniforms.bUseTexture,
     objectColor |-> uniforms.objectColor,
     objectTexture |-> uniforms.objectTexture,
     UVscale |-> uniforms.UVscale,
     material |-> uniforms.material]

\* The step is a draw of the first RenderScene call made after PrepareScene:
\* no later frame starts before that one has made all its draws.
FirstFrameDraw(step) ==
    /\ pc.fn = "RenderScene"
    /\ step.op = "Draw"
    /\ nPrepares >= 1
    /\ Len(firstFrame) = Len(drawn)

\* pc.i calls of the script pc.fn have been made.
CallPrepareScene ==
    /\ Running
    /\ nPrepares < MaxPrepares
    /\ pc' = [fn |-> "PrepareScene", i |-> 0]
    /\ nPrepares' = nPrepares + 1
    /\ lastCall' = [op |-> "PrepareScene", returned |-> FALSE]
    /\ UNCHANGED <<progVars, glVars, fault, halted, trace, nFrames, files, drawn, firstFrame>>

CallRenderScene ==
    /\ Running
    /\ nFrames < MaxFrames
    /\ pc' = [fn |-> "RenderScene", i |-> 0]
    /\ nFrames' = nFrames + 1
    /\ drawn' = <<>>
    /\ lastCall' = [op |-> "RenderScene", returned |-> FALSE]
    /\ UNCHANGED <<progVars, glVars, fault, halted, trace, nPrepares, files, firstFrame>>

SceneStep ==
    /\ ~halted
    /\ pc.fn \in {"PrepareScene", "RenderScene"}
    /\ pc.i < Len(Script(pc.fn))
    /\ Script(pc.fn)[pc.i + 1].op = "CreateGLTexture" => m_loadedTextures < MaxTextures
    /\ Exec(Script(pc.fn)[pc.i + 1])
    /\ pc' = [pc EXCEPT !.i = pc.i + 1]
    /\ firstFrame' = IF FirstFrameDraw(Script(pc.fn)[pc.i + 1])
                     THEN Append(firstFrame, DrawUniforms)
                     ELSE firstFrame
    /\ UNCHANGED <<m_pShaderManager, trace, nPrepares, nFrames, files>>

SceneReturn ==
    /\ ~halted
    /\ pc.fn \in {"PrepareScene", "RenderScene"}
    /\ pc.i = Len(Script(pc.fn))
    /\ pc' = Idle
    /\ lastCall' = [op |-> pc.fn, returned |-> TRUE]
    /\ UNCHANGED <<progVars, glVars, fault, halted, trace, nPrepares, nFrames, files, drawn, firstFrame>>

NextScene == CallPrepareScene \/ CallRenderScene \/ SceneStep \/ SceneReturn

SpecScene == InitScene /\ [][NextScene]_vars

---------------------------------------------------------------------------
(* Claims about the scene, checked under SpecScene *)

\* C7: in every state reached by CreateGLTexture calls, repeated PrepareScene
\* calls included, m_loadedTextures is at most 16 and no entry has been
\* written at an index outside 0..15.
C7_CountWithinCapacity ==
    /\ m_loadedTextures <= TextureCap
    /\ fault # "oob_write"

\* C8: with a null m_pShaderManager every uniform-setting call of PrepareScene
\* and RenderScene is skipped: the null pointer is never dereferenced and no
\* uniform is written.
C8_NullBackendSkipsEverything ==
    ~m_pShaderManager =>
        /\ fault # "null_deref"
        /\ uniforms = InitUniforms

RECURSIVE TextureTagBefore(_, _)
\* The tag of the SetShaderTexture call between the previous draw and position
\* i of RenderScene, "" if there is none.
TextureTagBefore(script, i) ==
    IF i = 0 \/ script[i].op = "Draw" THEN ""
    ELSE IF script[i].op = "SetShaderTexture" THEN script[i].tag
    ELSE TextureTagBefore(script, i - 1)

\* The call just made is a draw of RenderScene (call number pc.i).
AtDraw ==
    /\ pc.fn = "RenderScene"
    /\ pc.i >= 1
    /\ RenderSceneScript[pc.i].op = "Draw"

\* C9: whatever scene files fail to load, PrepareScene completes, and in the
\* following RenderScene every object whose texture tag is absent from the
\* registry is drawn untextured: at its draw call bUseTexture is false and the
\* sampler holds no invalid unit index.
C9_MissingTextureDrawsUntextured ==
    (/\ AtDraw
     /\ nPrepares >= 1
     /\ m_pShaderManager
     /\ TextureTagBefore(RenderSceneScript, pc.i - 1) # ""
     /\ FindTextureSlot(TextureTagBefore(RenderSceneScript, pc.i - 1)) = -1)
    => /\ uniforms.bUseTexture = 0
       /\ uniforms.objectTexture >= 0

\* RenderScene has made all its calls and returned.
RenderSceneReturned == lastCall = [op |-> "RenderScene", returned |-> TRUE]

\* The meshes of the scene in the order the objects are listed: plane, mug
\* body, mug handle, coffee surface, tackle box, rod handle, rod shaft, reel
\* body, reel side, fish body, fish eye, fish tail, five eyelets, three steam
\* particles.
SceneMeshes ==
    <<"Plane", "Cylinder", "Torus", "Cylinder", "Box", "Cylinder", "Cylinder",
      "Cylinder", "Cylinder", "Sphere", "Sphere", "Box",
      "Torus", "Torus", "Torus", "Torus", "Torus",
      "Sphere", "Sphere", "Sphere">>

\* C11 as stated: one execution of RenderScene issues exactly 19 mesh draw
\* calls in total.
C11_NineteenDraws ==
    RenderSceneReturned => Len(drawn) = 19

\* C11, amended: one execution of RenderScene from call to return issues
\* exactly 20 mesh draw calls (12 hand-written objects, 5 eyelets, 3 steam
\* particles), in the listed order; while it runs, the draws made so far are
\* the first ones of that list.
C11_TwentyDrawsInOrder ==
    /\ pc.fn = "RenderScene" =>
            /\ Len(drawn) <= Len(SceneMeshes)
            /\ drawn = SubSeq(SceneMeshes, 1, Len(drawn))
    /\ RenderSceneReturned => drawn = SceneMeshes

C11_Witness ==
    /\ RenderSceneReturned
    /\ Len(drawn) = 12 + 5 + 3
    /\ drawn[13] = "Torus"
    /\ drawn[18] = "Sphere"

RECURSIVE CallsSinceDraw(_, _)
\* The operations of the calls made after the previous draw (or the start of
\* the script) up to call i, in order.
CallsSinceDraw(script, i) ==
    IF i = 0 \/ script[i].op = "Draw" THEN <<>>
    ELSE Append(CallsSinceDraw(script, i - 1), script[i].op)

\* The calls RenderScene made between the previous draw and the draw just made.
CallsOfThisDraw == CallsSinceDraw(RenderSceneScript, pc.i - 1)

OptionalCall(op) == {<<>>, <<op>>}

\* Transform, colour and/or texture, optional UV scale, optional material.
GroupsWith(selections) ==
    {<<"SetTransformations">> \o s \o u \o m :
        s \in selections,
        u \in OptionalCall("SetTextureUVScale"),
        m \in OptionalCall("SetShaderMaterial")}

\* Any colour-or-texture selection: one call, or both in either order.
AnySelection ==
    {<<"SetShaderColor">>, <<"SetShaderTexture">>,
     <<"SetShaderColor", "SetShaderTexture">>, <<"SetShaderTexture", "SetShaderColor">>}

\* The selections RenderScene makes: texture alone, colour alone, or the
\* colour followed by the texture.
SceneSelections ==
    {<<"SetShaderColor">>, <<"SetShaderTexture">>, <<"SetShaderColor", "SetShaderTexture">>}

\* C12 as stated: for every draw call of RenderScene the steps since the
\* previous draw are a SetTransformations push, then a SetShaderColor or
\* SetShaderTexture selection, then optionally SetTextureUVScale, then
\* optionally SetShaderMaterial, then the draw: every draw has its own
\* transform and its own selection, and no selection precedes the transform.
C12_EveryDrawTransformThenSelection ==
    AtDraw => CallsOfThisDraw \in GroupsWith(AnySelection)

\* C12, amended: every draw of RenderScene has exactly one SetTransformations
\* push of its own.  Up to the last eyelet (draws 1 to 17) the steps since the
\* previous draw are the push, then SetShaderColor, SetShaderTexture or
\* SetShaderColor followed by SetShaderTexture, then optionally
\* SetTextureUVScale, then optionally SetShaderMaterial, then the draw.  The
\* three steam draws share one SetShaderColor made ahead of the loop, before
\* the first steam push; each of them follows its push directly.
C12_TransformThenSelectionButSteam ==
    AtDraw =>
        IF Len(drawn) <= 17 THEN CallsOfThisDraw \in GroupsWith(SceneSelections)
        ELSE IF Len(drawn) = 18
             THEN CallsOfThisDraw = <<"SetShaderColor", "SetTransformations">>
             ELSE CallsOfThisDraw = <<"SetTransformations">>

C12_Witness ==
    /\ AtDraw
    /\ Len(drawn) = 19
    /\ drawn[19] = "Sphere"
    /\ lastCall.op = "Draw"
    /\ CallsOfThisDraw = <<"SetTransformations">>

\* C13: no state is carried between frames: at every draw call position k the
\* uniforms in effect (model, bUseTexture, objectColor, objectTexture, UVscale,
\* material) are the same in the first RenderScene after PrepareScene and in
\* every later RenderScene.
C13_FramesAlike ==
    (AtDraw /\ nPrepares >= 1 /\ Len(firstFrame) >= Len(drawn))
    => DrawUniforms = firstFrame[Len(drawn)]

\* The registry entries in use: the texture cells below m_loadedTextures.
TextureEntriesKept ==
    /\ m_loadedTextures' >= m_loadedTextures
    /\ \A i \in 0..(m_loadedTextures - 1) : m_textureIDs'[i] = m_textureIDs[i]

\* The material entries stay where they are; new ones come after them.
MaterialEntriesKept ==
    /\ Len(m_objectMaterials') >= Len(m_objectMaterials)
    /\ SubSeq(m_objectMaterials', 1, Len(m_objectMaterials)) = m_objectMaterials

TexturesUntouched == m_loadedTextures' = m_loadedTextures /\ m_textureIDs' = m_textureIDs
MaterialsUntouched == m_objectMaterials' = m_objectMaterials

====
